---- MODULE Spec2Model ----
(***************************************************************************)
(* tinycoro: the Rust wrapper (src/src/lib.rs) around the minicoro engine. *)
(*                                                                         *)
(* The wrapper's methods are translated from src/src/lib.rs.  The engine   *)
(* entry points they call (mco_create, mco_resume, mco_yield, mco_push,    *)
(* mco_pop, mco_destroy, mco_running, mco_status, ...) live in the         *)
(* vendored minicoro.c / minicoro.h, which build.rs compiles; their        *)
(* behaviour is taken from spec.md sections 3, 4.1 - 4.4 and 6.            *)
(*                                                                         *)
(* Two layers of state are kept apart on purpose:                          *)
(*   - the engine's bookkeeping: co_state, co_prev, mco_current_co, the    *)
(*     storage channel (co_bytes, co_cap);                                 *)
(*   - physical control: pc (where each context's execution stands) and    *)
(*     co_back (the context saved by the switch into a coroutine).         *)
(* Who executes the next step is decided by pc alone, so statements that   *)
(* relate the bookkeeping to actual control are not true by construction.  *)
(***************************************************************************)
EXTENDS Integers, Sequences, FiniteSets, TLC

\* ---------------------------------------------------------------- bounds
MaxCoros == 3      \* control blocks the allocator can provide (Spec)
ThreadCoros == 2   \* control blocks the allocator can provide (SpecThreads)
StorageCoros == 1  \* control blocks the allocator can provide (SpecStorage)
ExampleCoros == 2  \* control blocks the allocator can provide (SpecExample)
StorageSize == 2   \* capacity in bytes of a storage channel
MaxYields == 2     \* most yields in the body of a scripted entry routine

\* ------------------------------------------------------------- constants
NULL == 0          \* ptr::null_mut()

Coros == 1..MaxCoros
Threads == {1, 2}
MainThread == CHOOSE t \in Threads : \A u \in Threads : t <= u
Root(t) == 0 - t                       \* the root context of thread t
Roots == {Root(t) : t \in Threads}
Ctx == Coros \cup Roots
ByteVals == {0, 1}
Sizes == {0, 1, 2}                     \* size_of::<T>() of the types transferred
Payloads == UNION {[1..n -> ByteVals] : n \in Sizes}

\* The entry routine handed to Coroutine::new.  AnyBody makes whatever calls it
\* likes; Script(n) calls yield_current n times and then returns, as
\* example_coroutine does with n = 2.  yields counts the yields a scripted body
\* has made, resumes the resume calls that entered it.
AnyBody == [any |-> TRUE, n |-> 0, yields |-> 0, resumes |-> 0]
Script(n) == [any |-> FALSE, n |-> n, yields |-> 0, resumes |-> 0]
Scripts == {Script(n) : n \in 0..MaxYields}

VARIABLES
    alive,           \* control blocks allocated and not released
    handle,          \* Coroutine handles that have not been dropped
    owner,           \* the thread holding each handle (Coroutine is Send, not Sync)
    co_state,        \* mco_coro.state, a raw mco_state
    co_prev,         \* mco_coro.prev_co, the Resumer back-reference
    co_back,         \* the context saved when switching into the coroutine
    co_bytes,        \* the storage channel's content, tail last
    co_cap,          \* mco_coro.storage_size
    mco_current_co,  \* the thread-local registry
    pc,              \* position of every context
    body,            \* the entry routine of each coroutine and how far it has got
    last,            \* the last step: the call made and the call that returned
    pushed           \* what the callers of push and pop have seen go in and not out

vars == <<alive, handle, owner, co_state, co_prev, co_back, co_bytes, co_cap,
          mco_current_co, pc, body, last, pushed>>

\* Everything but the record of the last step.
engine == <<alive, handle, owner, co_state, co_prev, co_back, co_bytes, co_cap,
            mco_current_co, pc, body>>

\* ------------------------------------------------- the wrapper's enums
\* CoroutineState::from_raw with the arms for Normal and Suspended exchanged.
CoroutineState_from_raw_exchanged(state) ==
    CASE state = "MCO_NORMAL" -> "Suspended"
      [] state = "MCO_RUNNING" -> "Running"
      [] state = "MCO_SUSPENDED" -> "Normal"
      [] OTHER -> "Dead"

\* CoroutineState::from_raw with Suspended, not Dead, as the arm for every
\* other value.
CoroutineState_from_raw_no_dead(state) ==
    CASE state = "MCO_NORMAL" -> "Normal"
      [] state = "MCO_RUNNING" -> "Running"
      [] OTHER -> "Suspended"

\* CoroutineState::from_raw: the raw mco_state to the wrapper's enum.
CoroutineState_from_raw(state) ==
    CASE state = "MCO_NORMAL" -> "Normal"
      [] state = "MCO_RUNNING" -> "Running"
      [] state = "MCO_SUSPENDED" -> "Suspended"
      [] OTHER -> "Dead"

\* CoroutineError::from_raw with neighbouring arms exchanged: NotSuspended
\* with NotRunning, NotEnoughSpace with OutOfMemory.
CoroutineError_from_raw_exchanged(result) ==
    CASE result = "MCO_SUCCESS" -> "Success"
      [] result = "MCO_GENERIC_ERROR" -> "GenericError"
      [] result = "MCO_INVALID_POINTER" -> "InvalidPointer"
      [] result = "MCO_INVALID_COROUTINE" -> "InvalidCoroutine"
      [] result = "MCO_NOT_SUSPENDED" -> "NotRunning"
      [] result = "MCO_NOT_RUNNING" -> "NotSuspended"
      [] result = "MCO_MAKE_CONTEXT_ERROR" -> "MakeContextError"
      [] result = "MCO_SWITCH_CONTEXT_ERROR" -> "SwitchContextError"
      [] result = "MCO_NOT_ENOUGH_SPACE" -> "OutOfMemory"
      [] result = "MCO_OUT_OF_MEMORY" -> "NotEnoughSpace"
      [] result = "MCO_INVALID_ARGUMENTS" -> "InvalidArguments"
      [] result = "MCO_INVALID_OPERATION" -> "InvalidOperation"
      [] result = "MCO_STACK_OVERFLOW" -> "StackOverflow"
      [] OTHER -> "Unknown"

\* CoroutineError::from_raw: the raw mco_result to the wrapper's enum.
CoroutineError_from_raw(result) ==
    CASE result = "MCO_SUCCESS" -> "Success"
      [] result = "MCO_GENERIC_ERROR" -> "GenericError"
      [] result = "MCO_INVALID_POINTER" -> "InvalidPointer"
      [] result = "MCO_INVALID_COROUTINE" -> "InvalidCoroutine"
      [] result = "MCO_NOT_SUSPENDED" -> "NotSuspended"
      [] result = "MCO_NOT_RUNNING" -> "NotRunning"
      [] result = "MCO_MAKE_CONTEXT_ERROR" -> "MakeContextError"
      [] result = "MCO_SWITCH_CONTEXT_ERROR" -> "SwitchContextError"
      [] result = "MCO_NOT_ENOUGH_SPACE" -> "NotEnoughSpace"
      [] result = "MCO_OUT_OF_MEMORY" -> "OutOfMemory"
      [] result = "MCO_INVALID_ARGUMENTS" -> "InvalidArguments"
      [] result = "MCO_INVALID_OPERATION" -> "InvalidOperation"
      [] result = "MCO_STACK_OVERFLOW" -> "StackOverflow"
      [] OTHER -> "Unknown"

\* ------------------------------------------- the engine's pure entry points
mco_status(co) == co_state[co]

mco_running(t) == mco_current_co[t]

mco_get_bytes_stored(co) == Len(co_bytes[co])

mco_get_storage_size(co) == co_cap[co]

\* What mco_resume answers: only a Suspended coroutine can be resumed.
mco_resume_result(co) ==
    IF co = NULL THEN "MCO_INVALID_COROUTINE"
    ELSE IF co_state[co] # "MCO_SUSPENDED" THEN "MCO_NOT_SUSPENDED"
    ELSE "MCO_SUCCESS"

\* What mco_yield answers: only a Running coroutine can yield.
mco_yield_result(co) ==
    IF co = NULL THEN "MCO_INVALID_COROUTINE"
    ELSE IF co_state[co] # "MCO_RUNNING" THEN "MCO_NOT_RUNNING"
    ELSE "MCO_SUCCESS"

\* What mco_push answers for len bytes.
mco_push_result(co, len) ==
    IF co = NULL THEN "MCO_INVALID_COROUTINE"
    ELSE IF len > 0 /\ Len(co_bytes[co]) + len > co_cap[co] THEN "MCO_NOT_ENOUGH_SPACE"
    ELSE "MCO_SUCCESS"

\* What mco_pop answers for len bytes.
mco_pop_result(co, len) ==
    IF co = NULL THEN "MCO_INVALID_COROUTINE"
    ELSE IF len > 0 /\ len > Len(co_bytes[co]) THEN "MCO_NOT_ENOUGH_SPACE"
    ELSE "MCO_SUCCESS"

\* What mco_destroy answers: legal only on a Suspended or Dead coroutine.
mco_destroy_result(co) ==
    IF co = NULL THEN "MCO_INVALID_COROUTINE"
    ELSE IF co_state[co] \notin {"MCO_SUSPENDED", "MCO_DEAD"} THEN "MCO_INVALID_OPERATION"
    ELSE "MCO_SUCCESS"

\* The storage channel after a push of data / after a pop of len bytes, and
\* the bytes a pop of len bytes copies out (the trailing len bytes, in order).
mco_push_bytes(stored, data) == stored \o data

mco_pop_bytes(stored, len) == SubSeq(stored, 1, Len(stored) - len)

mco_pop_data(stored, len) == SubSeq(stored, Len(stored) - len + 1, Len(stored))

\* ------------------------------------------------- the wrapper's getters
\* Coroutine::status
status(co) == CoroutineState_from_raw(mco_status(co))

\* Coroutine::bytes_stored
bytes_stored(co) == mco_get_bytes_stored(co)

\* Coroutine::storage_size calling the getter of bytes_stored.
storage_size_of_stored(co) == mco_get_bytes_stored(co)

\* Coroutine::storage_size
storage_size(co) == mco_get_storage_size(co)

\* running() answering from one registry shared by all threads.
running_shared(t) ==
    LET co == mco_running(MainThread) IN IF co = NULL THEN NULL ELSE co

\* running(): Some(co), written co, or None, written NULL.
running(t) == LET co == mco_running(t) IN IF co = NULL THEN NULL ELSE co

\* ------------------------------------------- what the wrapper's calls return
\* Coroutine::new: Ok(Coroutine) or the mapped error.
Coroutine_new_ret(result) ==
    IF result = "MCO_SUCCESS" THEN "Ok" ELSE CoroutineError_from_raw(result)

\* Coroutine::resume answering Ok(()) whatever mco_resume said.
Coroutine_resume_ret_ignored(result) == "Ok"

\* Coroutine::resume
Coroutine_resume_ret(result) ==
    IF result = "MCO_SUCCESS" THEN "Ok" ELSE CoroutineError_from_raw(result)

\* Coroutine::yield_now answering Ok(()) whatever mco_yield said.
Coroutine_yield_now_ret_ignored(result) == "Ok"

\* Coroutine::yield_now
Coroutine_yield_now_ret(result) ==
    IF result = "MCO_SUCCESS" THEN "Ok" ELSE CoroutineError_from_raw(result)

\* Coroutine::push answering Ok(()) whatever mco_push said.
Coroutine_push_ret_ignored(result) == "Ok"

\* Coroutine::push
Coroutine_push_ret(result) ==
    IF result = "MCO_SUCCESS" THEN "Ok" ELSE CoroutineError_from_raw(result)

\* Coroutine::pop answering Ok with the T whatever mco_pop said.
Coroutine_pop_ret_ignored(result) == "Ok"

\* Coroutine::pop
Coroutine_pop_ret(result) ==
    IF result = "MCO_SUCCESS" THEN "Ok" ELSE CoroutineError_from_raw(result)

\* Coroutine::pop reading the bytes at the head of the channel, not its tail.
Coroutine_pop_data_oldest(stored, len) == SubSeq(stored, 1, len)

\* Coroutine::pop reading a T that mco_pop was not given to fill.
Coroutine_pop_data_unfilled(stored, len) == [i \in 1..len |-> 0]

\* Coroutine::pop: the T read out of the MaybeUninit that mco_pop copied the
\* trailing len bytes of the channel into.
Coroutine_pop_data(stored, len) == mco_pop_data(stored, len)

\* yield_current answering NotRunning when running() is None.
yield_current_ret_not_running(co, result) ==
    IF co # NULL
    THEN IF result = "MCO_SUCCESS" THEN "Ok" ELSE CoroutineError_from_raw(result)
    ELSE "NotRunning"

\* yield_current and yield_current_unsafe, given running() and mco_yield's answer.
yield_current_ret(co, result) ==
    IF co # NULL
    THEN IF result = "MCO_SUCCESS" THEN "Ok" ELSE CoroutineError_from_raw(result)
    ELSE "InvalidCoroutine"

\* ------------------------------------------------------------- contexts
\* Context x (a root or a coroutine) executes on thread t.
OnThread(x, t) == IF x \in Coros THEN owner[x] = t ELSE x = Root(t)

\* x is the context that has control on thread t.
Executing(t, x) == x \in Ctx /\ OnThread(x, t) /\ pc[x] = "run"

\* x runs code that may make any call: a root, or an unscripted body.
FreeCaller(x) == IF x \in Coros THEN body[x].any ELSE TRUE

\* x runs a scripted body that has yields left to make (more = TRUE) or has
\* made them all and returns next (more = FALSE).
ScriptAt(x, more) ==
    IF x \in Coros /\ ~body[x].any
    THEN (body[x].yields < body[x].n) = more
    ELSE FALSE

\* The record of a step on thread t: context `by` called `call` for coroutine
\* co, and in the context `to` that has control afterwards the call `ret`
\* returned res.  For a push or pop, len is size_of::<T>(), val the value that
\* was transferred and before the channel's content before the call.
Step(t, call, by, co, ret, to, res) ==
    [t |-> t, call |-> call, by |-> by, co |-> co, ret |-> ret, to |-> to,
     res |-> res, len |-> 0, val |-> <<>>, before |-> <<>>]

\* A call that returns at once to its caller.
Returned(t, call, by, co, res) == Step(t, call, by, co, call, by, res)

Transferred(t, call, by, co, res, len, val, before) ==
    [t |-> t, call |-> call, by |-> by, co |-> co, ret |-> call, to |-> by,
     res |-> res, len |-> len, val |-> val, before |-> before]

\* ------------------------------------------------ the engine's switches
\* _mco_jumpin: x, executing on thread t, switches into co.  The registry's
\* Running coroutine becomes co's Resumer and turns Normal; x's context is
\* saved and co continues at its entry or after its last yield.
mco_jumpin(t, x, co) ==
    LET prev_co == mco_running(t) IN
    /\ co_state' = [c \in Coros |->
                      IF c = co THEN "MCO_RUNNING"
                      ELSE IF c = prev_co THEN "MCO_NORMAL"
                      ELSE co_state[c]]
    /\ co_prev' = [co_prev EXCEPT ![co] = prev_co]
    /\ mco_current_co' = [mco_current_co EXCEPT ![t] = co]
    /\ co_back' = [co_back EXCEPT ![co] = x]
    /\ pc' = [pc EXCEPT ![x] = "resume", ![co] = "run"]

\* _mco_jumpout: co, whose body is executed by x on thread t, leaves in state
\* left (Suspended on a yield, Dead on return).  Its Resumer turns Running,
\* the registry goes back to it and the saved context continues.
mco_jumpout(t, x, co, left) ==
    LET prev_co == co_prev[co] IN
    /\ co_state' = [c \in Coros |->
                      IF c = co THEN left
                      ELSE IF c = prev_co THEN "MCO_RUNNING"
                      ELSE co_state[c]]
    /\ co_prev' = [co_prev EXCEPT ![co] = NULL]
    /\ mco_current_co' = [mco_current_co EXCEPT ![t] = prev_co]
    /\ pc' = [y \in Ctx |->
                IF y = co_back[co] THEN "run"
                ELSE IF y = x THEN (IF left = "MCO_DEAD" THEN "done" ELSE "yield")
                ELSE pc[y]]
    /\ co_back' = [co_back EXCEPT ![co] = NULL]

\* --------------------------------------------------------------- actions
\* Coroutine::new by x on thread t with an entry routine among funcs:
\* mco_desc_init and mco_create.  The allocator has room for `room` control
\* blocks; with none free it fails.
Coroutine_new(t, x, room, funcs) ==
    /\ Executing(t, x) /\ FreeCaller(x)
    /\ IF (1..room) \ alive # {}
       THEN LET free == (1..room) \ alive
                co == CHOOSE c \in free : \A d \in free : c <= d IN
            /\ alive' = alive \cup {co}
            /\ handle' = handle \cup {co}
            /\ owner' = [owner EXCEPT ![co] = t]
            /\ co_state' = [co_state EXCEPT ![co] = "MCO_SUSPENDED"]
            /\ co_prev' = [co_prev EXCEPT ![co] = NULL]
            /\ co_back' = [co_back EXCEPT ![co] = NULL]
            /\ co_bytes' = [co_bytes EXCEPT ![co] = <<>>]
            /\ co_cap' = [co_cap EXCEPT ![co] = StorageSize]
            /\ pc' = [pc EXCEPT ![co] = "start"]
            /\ \E func \in funcs : body' = [body EXCEPT ![co] = func]
            /\ last' = Returned(t, "new", x, co, Coroutine_new_ret("MCO_SUCCESS"))
            /\ UNCHANGED mco_current_co
       ELSE /\ last' = Returned(t, "new", x, NULL, Coroutine_new_ret("MCO_OUT_OF_MEMORY"))
            /\ UNCHANGED engine

\* Coroutine::resume of co by x on thread t.  On success control is in co when
\* the step ends: at its entry, or back from the yield it was suspended in.
Coroutine_resume(t, x, co) ==
    /\ Executing(t, x) /\ FreeCaller(x)
    /\ co \in handle /\ owner[co] = t
    /\ LET result == mco_resume_result(co) IN
       IF result = "MCO_SUCCESS"
       THEN /\ mco_jumpin(t, x, co)
            /\ body' = [body EXCEPT ![co].resumes = IF body[co].any THEN @ ELSE @ + 1]
            /\ last' = IF pc[co] = "start"
                       THEN Step(t, "resume", x, co, "entry", co, "None")
                       ELSE Step(t, "resume", x, co, "yield", co,
                                 yield_current_ret(co, "MCO_SUCCESS"))
            /\ UNCHANGED <<alive, handle, owner, co_bytes, co_cap>>
       ELSE /\ last' = Returned(t, "resume", x, co, Coroutine_resume_ret(result))
            /\ UNCHANGED engine

\* The switch out of co on behalf of the call `call` made by x: the resume
\* call that the saved context is blocked in returns.
SwitchOut(t, call, x, co, left) ==
    /\ mco_jumpout(t, x, co, left)
    /\ last' = Step(t, call, x, co, "resume", co_back[co], Coroutine_resume_ret("MCO_SUCCESS"))
    /\ UNCHANGED <<alive, handle, owner, co_bytes, co_cap>>

\* yield_current() called by x on thread t.
yield_current(t, x) ==
    /\ Executing(t, x)
    /\ IF FreeCaller(x) THEN TRUE ELSE ScriptAt(x, TRUE)
    /\ LET co == running(t)
           result == mco_yield_result(co) IN
       IF co # NULL /\ result = "MCO_SUCCESS"
       THEN /\ SwitchOut(t, "yield_current", x, co, "MCO_SUSPENDED")
            /\ body' = IF x \in Coros /\ ~body[x].any
                       THEN [body EXCEPT ![x].yields = @ + 1] ELSE body
       ELSE /\ last' = Returned(t, "yield_current", x, co, yield_current_ret(co, result))
            /\ UNCHANGED engine

\* yield_current_unsafe() called by x on thread t.
yield_current_unsafe(t, x) ==
    /\ Executing(t, x) /\ FreeCaller(x)
    /\ LET co == running(t)
           result == mco_yield_result(co) IN
       IF co # NULL /\ result = "MCO_SUCCESS"
       THEN /\ SwitchOut(t, "yield_current_unsafe", x, co, "MCO_SUSPENDED")
            /\ UNCHANGED body
       ELSE /\ last' = Returned(t, "yield_current_unsafe", x, co, yield_current_ret(co, result))
            /\ UNCHANGED engine

\* Coroutine::yield_now on the handle of co, called by x on thread t.
Coroutine_yield_now(t, x, co) ==
    /\ Executing(t, x) /\ FreeCaller(x)
    /\ co \in handle /\ owner[co] = t
    /\ LET result == mco_yield_result(co) IN
       IF result = "MCO_SUCCESS"
       THEN /\ SwitchOut(t, "yield_now", x, co, "MCO_SUSPENDED")
            /\ UNCHANGED body
       ELSE /\ last' = Returned(t, "yield_now", x, co, Coroutine_yield_now_ret(result))
            /\ UNCHANGED engine

\* The entry routine of coroutine x returns: the engine marks it Dead and
\* switches out as for a yield.
EntryReturn(t, x) ==
    /\ Executing(t, x)
    /\ x \in Coros
    /\ IF body[x].any THEN TRUE ELSE ScriptAt(x, FALSE)
    /\ SwitchOut(t, "return", x, x, "MCO_DEAD")
    /\ UNCHANGED body

\* Coroutine::push of data on the handle of co, called by x on thread t.
Coroutine_push(t, x, co, data) ==
    /\ Executing(t, x) /\ FreeCaller(x)
    /\ co \in handle /\ owner[co] = t
    /\ LET result == mco_push_result(co, Len(data)) IN
       /\ co_bytes' = IF result = "MCO_SUCCESS"
                      THEN [co_bytes EXCEPT ![co] = mco_push_bytes(@, data)]
                      ELSE co_bytes
       /\ last' = Transferred(t, "push", x, co, Coroutine_push_ret(result), Len(data),
                              IF result = "MCO_SUCCESS" THEN data ELSE <<>>,
                              co_bytes[co])
    /\ UNCHANGED <<alive, handle, owner, co_state, co_prev, co_back, co_cap,
                   mco_current_co, pc, body>>

\* Coroutine::pop of a value of len bytes on the handle of co.
Coroutine_pop(t, x, co, len) ==
    /\ Executing(t, x) /\ FreeCaller(x)
    /\ co \in handle /\ owner[co] = t
    /\ LET result == mco_pop_result(co, len) IN
       /\ co_bytes' = IF result = "MCO_SUCCESS"
                      THEN [co_bytes EXCEPT ![co] = mco_pop_bytes(@, len)]
                      ELSE co_bytes
       /\ last' = Transferred(t, "pop", x, co, Coroutine_pop_ret(result), len,
                              IF result = "MCO_SUCCESS"
                              THEN Coroutine_pop_data(co_bytes[co], len) ELSE <<>>,
                              co_bytes[co])
    /\ UNCHANGED <<alive, handle, owner, co_state, co_prev, co_back, co_cap,
                   mco_current_co, pc, body>>

\* Drop releasing the control block itself, whatever state it is in, where the
\* code leaves the release to mco_destroy.
Coroutine_drop_unchecked(t, x, co) ==
    /\ Executing(t, x) /\ FreeCaller(x)
    /\ co \in handle /\ owner[co] = t
    /\ handle' = handle \ {co}
    /\ last' = Returned(t, "drop", x, co, "None")
    /\ alive' = alive \ {co}
    /\ owner' = [owner EXCEPT ![co] = NULL]
    /\ co_state' = [co_state EXCEPT ![co] = "MCO_DEAD"]
    /\ co_bytes' = [co_bytes EXCEPT ![co] = <<>>]
    /\ co_cap' = [co_cap EXCEPT ![co] = 0]
    /\ pc' = [pc EXCEPT ![co] = "free"]
    /\ body' = [body EXCEPT ![co] = AnyBody]
    /\ UNCHANGED <<co_prev, co_back, mco_current_co>>

\* Drop with the null test inverted: mco_destroy is never called for a handle
\* that holds a coroutine.
Coroutine_drop_inverted(t, x, co) ==
    /\ Executing(t, x) /\ FreeCaller(x)
    /\ co \in handle /\ owner[co] = t
    /\ handle' = handle \ {co}
    /\ last' = Returned(t, "drop", x, co, "None")
    /\ UNCHANGED <<alive, owner, co_state, co_prev, co_back, co_bytes, co_cap,
                   mco_current_co, pc, body>>

\* Drop of a copy of the handle of co: the handle itself stays usable.
Coroutine_drop_aliased(t, x, co) ==
    /\ Executing(t, x) /\ FreeCaller(x)
    /\ co \in handle /\ owner[co] = t
    /\ last' = Returned(t, "drop", x, co, "None")
    /\ IF mco_destroy_result(co) = "MCO_SUCCESS"
       THEN /\ alive' = alive \ {co}
            /\ co_state' = [co_state EXCEPT ![co] = "MCO_DEAD"]
            /\ co_bytes' = [co_bytes EXCEPT ![co] = <<>>]
            /\ co_cap' = [co_cap EXCEPT ![co] = 0]
            /\ pc' = [pc EXCEPT ![co] = "free"]
            /\ body' = [body EXCEPT ![co] = AnyBody]
            /\ UNCHANGED <<handle, owner, co_prev, co_back, mco_current_co>>
       ELSE UNCHANGED <<alive, handle, owner, co_state, co_prev, co_back, co_bytes,
                        co_cap, mco_current_co, pc, body>>

\* Drop of the handle of co: mco_destroy, whose answer the wrapper ignores.
\* The handle is gone either way; the control block is released only when the
\* engine accepts the destroy.
Coroutine_drop(t, x, co) ==
    /\ Executing(t, x) /\ FreeCaller(x)
    /\ co \in handle /\ owner[co] = t
    /\ handle' = handle \ {co}
    /\ last' = Returned(t, "drop", x, co, "None")
    /\ IF mco_destroy_result(co) = "MCO_SUCCESS"
       THEN /\ alive' = alive \ {co}
            /\ owner' = [owner EXCEPT ![co] = NULL]
            /\ co_state' = [co_state EXCEPT ![co] = "MCO_DEAD"]
            /\ co_bytes' = [co_bytes EXCEPT ![co] = <<>>]
            /\ co_cap' = [co_cap EXCEPT ![co] = 0]
            /\ pc' = [pc EXCEPT ![co] = "free"]
            /\ body' = [body EXCEPT ![co] = AnyBody]
            /\ UNCHANGED <<co_prev, co_back, mco_current_co>>
       ELSE UNCHANGED <<alive, owner, co_state, co_prev, co_back, co_bytes, co_cap,
                        mco_current_co, pc, body>>

\* The handle of co is moved to thread t2 (Coroutine is Send).  A handle is
\* borrowed for the whole of a resume call, so it moves only while its
\* coroutine is neither Running nor Normal.
SendHandle(t, x, co, t2) ==
    /\ Executing(t, x) /\ FreeCaller(x)
    /\ co \in handle /\ owner[co] = t /\ t2 # t
    /\ co_state[co] \in {"MCO_SUSPENDED", "MCO_DEAD"}
    /\ owner' = [owner EXCEPT ![co] = t2]
    /\ last' = Returned(t, "send", x, co, "None")
    /\ UNCHANGED <<alive, handle, co_state, co_prev, co_back, co_bytes, co_cap,
                   mco_current_co, pc, body>>

\* ------------------------------------------------ what the callers saw
\* The callers' account of a storage channel.  held: one entry per push that
\* answered Ok and has not been popped again, oldest first, with the context
\* that pushed (by), the value (val) and where the addressed coroutine stood
\* then (at).  taken: the entries, or parts of entries, that the last step
\* removed, if it was a pop that answered Ok.  dropped: where the coroutine
\* stood when its handle was dropped ("no" while it has not been).  The
\* account is kept from the calls' arguments and answers alone, never from the
\* channel's content.
NoAccount == [held |-> <<>>, taken |-> <<>>, dropped |-> "no"]

\* The entries left after len bytes are popped.
RECURSIVE Popped(_, _)
Popped(entries, len) ==
    IF len = 0 \/ entries = <<>> THEN entries
    ELSE LET top == entries[Len(entries)]
             rest == SubSeq(entries, 1, Len(entries) - 1) IN
         IF Len(top.val) <= len
         THEN Popped(rest, len - Len(top.val))
         ELSE Append(rest, [top EXCEPT !.val = SubSeq(top.val, 1, Len(top.val) - len)])

\* The entries, or trailing parts of entries, that a pop of len bytes removes.
RECURSIVE Taken(_, _)
Taken(entries, len) ==
    IF len = 0 \/ entries = <<>> THEN <<>>
    ELSE LET top == entries[Len(entries)]
             rest == SubSeq(entries, 1, Len(entries) - 1) IN
         IF Len(top.val) <= len
         THEN Append(Taken(rest, len - Len(top.val)), top)
         ELSE <<[top EXCEPT !.val = SubSeq(top.val, Len(top.val) - len + 1, Len(top.val))]>>

\* The bytes of the entries, oldest first.
RECURSIVE Values(_)
Values(entries) ==
    IF entries = <<>> THEN <<>>
    ELSE Values(SubSeq(entries, 1, Len(entries) - 1)) \o entries[Len(entries)].val

\* The account after the step recorded in last'.
Seen ==
    LET ok(call) == last'.res = "Ok" /\ last'.call = call /\ last'.len > 0 IN
    pushed' =
        [c \in Coros |->
            IF last'.co # c THEN [pushed[c] EXCEPT !.taken = <<>>]
            ELSE IF last'.res = "Ok" /\ last'.call = "new" THEN NoAccount
            ELSE IF last'.call = "drop"
            THEN [pushed[c] EXCEPT !.taken = <<>>, !.dropped = pc[c]]
            ELSE IF ok("push")
            THEN [pushed[c] EXCEPT !.taken = <<>>,
                                   !.held = Append(@, [by |-> last'.by, val |-> last'.val,
                                                       at |-> pc[c]])]
            ELSE IF ok("pop")
            THEN [pushed[c] EXCEPT !.taken = Taken(pushed[c].held, last'.len),
                                   !.held = Popped(@, last'.len)]
            ELSE [pushed[c] EXCEPT !.taken = <<>>]]

\* -------------------------------------------------------- specification
Init ==
    /\ alive = {}
    /\ handle = {}
    /\ owner = [c \in Coros |-> NULL]
    /\ co_state = [c \in Coros |-> "MCO_DEAD"]
    /\ co_prev = [c \in Coros |-> NULL]
    /\ co_back = [c \in Coros |-> NULL]
    /\ co_bytes = [c \in Coros |-> <<>>]
    /\ co_cap = [c \in Coros |-> 0]
    /\ mco_current_co = [t \in Threads |-> NULL]
    /\ pc = [x \in Ctx |-> IF x \in Roots THEN "run" ELSE "free"]
    /\ body = [c \in Coros |-> AnyBody]
    /\ last = Returned(NULL, "none", NULL, NULL, "None")
    /\ pushed = [c \in Coros |-> NoAccount]

\* Creation, resume, yield and return, as called by x on thread t.
Lifecycle(t, x, room, funcs) ==
    \/ Coroutine_new(t, x, room, funcs)
    \/ \E co \in Coros : Coroutine_resume(t, x, co)
    \/ yield_current(t, x)
    \/ EntryReturn(t, x)

\* The lifecycle, the other two ways to yield, and destruction.
Switching(t, x, room) ==
    \/ Lifecycle(t, x, room, {AnyBody})
    \/ yield_current_unsafe(t, x)
    \/ \E co \in Coros : Coroutine_yield_now(t, x, co)
    \/ \E co \in Coros : Coroutine_drop(t, x, co)

\* The storage channel's calls, as called by x on thread t.
Storage(t, x) ==
    \/ \E co \in Coros, data \in Payloads : Coroutine_push(t, x, co, data)
    \/ \E co \in Coros, len \in Sizes : Coroutine_pop(t, x, co, len)

\* One thread, creating, switching and destroying up to MaxCoros coroutines.
Next == \E x \in Ctx : Switching(MainThread, x, MaxCoros) /\ UNCHANGED pushed

Spec == Init /\ [][Next]_vars

\* One thread, with the storage channels in use across the switches of up to
\* StorageCoros coroutines that are created and never dropped.
NextStorage ==
    \E x \in Ctx :
        /\ \/ Lifecycle(MainThread, x, StorageCoros, {AnyBody})
           \/ Storage(MainThread, x)
        /\ UNCHANGED pushed

SpecStorage == Init /\ [][NextStorage]_vars

\* Two threads, each running its own chain; handles move between them.
NextThreads ==
    \E t \in Threads, x \in Ctx :
        /\ \/ Switching(t, x, ThreadCoros)
           \/ \E co \in Coros, t2 \in Threads : SendHandle(t, x, co, t2)
        /\ UNCHANGED pushed

SpecThreads == Init /\ [][NextThreads]_vars

\* The example program: the root creates coroutines whose bodies yield a fixed
\* number of times and return, and resumes them over and over.
NextExample ==
    \E x \in Ctx : Lifecycle(MainThread, x, ExampleCoros, Scripts) /\ UNCHANGED pushed

SpecExample == Init /\ [][NextExample]_vars

\* The two sides of one storage channel: a root and the one coroutine it has
\* at a time, which create, switch, push, pop and drop and keep account of what
\* they pushed and popped.
NextChannel ==
    \E x \in Ctx :
        /\ \/ Lifecycle(MainThread, x, 1, {AnyBody})
           \/ Storage(MainThread, x)
           \/ \E co \in Coros : Coroutine_drop(MainThread, x, co)
        /\ Seen

SpecChannel == Init /\ [][NextChannel]_vars

\* ================================================================ claims
\* The Resumers reached from c by following the back-references, c included.
RECURSIVE ResumeChain(_, _)
ResumeChain(c, k) ==
    IF c = NULL \/ k = 0 THEN {} ELSE {c} \cup ResumeChain(co_prev[c], k - 1)

\* The ancestors of c in the resume chain.
Ancestors(c) == ResumeChain(co_prev[c], MaxCoros)

\* The coroutines created and not destroyed whose handle thread t holds.
OnThreadCoros(t) == {c \in alive : owner[c] = t}

RunningOn(t) == {c \in OnThreadCoros(t) : status(c) = "Running"}

\* C1: on each thread at most one coroutine has status Running, every
\* ancestor of it in the resume chain has status Normal, and every other
\* created, not-yet-destroyed coroutine has status Suspended or Dead.
C1_OneRunningPerThread ==
    \A t \in Threads :
        /\ Cardinality(RunningOn(t)) <= 1
        /\ \A r \in RunningOn(t) : \A a \in Ancestors(r) :
               a \in OnThreadCoros(t) /\ status(a) = "Normal"
        /\ \A c \in OnThreadCoros(t) :
               (c \notin RunningOn(t) /\ \A r \in RunningOn(t) : c \notin Ancestors(r))
                   => status(c) \in {"Suspended", "Dead"}

\* A coroutine runs under a Normal ancestor while another one is Suspended or
\* the other thread holds a coroutine of its own.
C1_Witness ==
    \E t \in Threads : \E r \in RunningOn(t) :
        /\ Ancestors(r) # {}
        /\ \A a \in Ancestors(r) : status(a) = "Normal"

\* C7, the registry's value: running() is Some(c) exactly when c has status
\* Running on the calling thread, and None exactly when the thread's root has
\* control.
C7_Registry ==
    \A t \in Threads :
        /\ running(t) # NULL => running(t) \in RunningOn(t) /\ pc[running(t)] = "run"
        /\ \A c \in RunningOn(t) : running(t) = c
        /\ running(t) = NULL <=> pc[Root(t)] = "run"

\* A step in which control passed from one context to another.
Switched == last'.to # last'.by

\* C7, the registry's updates: its value on a thread changes exactly in the
\* steps in which a resume, a yield or a return of the entry routine on that
\* thread switches, and the status of the coroutine concerned changes with it.
C7_Updates ==
    \A t \in Threads :
        running(t)' # running(t)
            <=> /\ last'.t = t
                /\ last'.call \in {"resume", "yield_current", "yield_current_unsafe",
                                   "yield_now", "return"}
                /\ Switched
                /\ \E co \in Coros : co = last'.co /\ status(co)' # status(co)

\* C7: the registry names the Running coroutine of the calling thread, and
\* changes only together with a status change by resume, yield or return.
C7_RunningRegistry == [](C7_Registry) /\ [][C7_Updates]_vars

\* Both threads have a Running coroutine of their own at the same time.
C7_Witness ==
    /\ \A t \in Threads : running(t) # NULL
    /\ \E t, u \in Threads : running(t) # running(u)

\* The calls that switch out of a coroutine by yielding.
YieldCalls == {"yield_current", "yield_current_unsafe", "yield_now"}

\* The last step's call returned to its caller without a switch.
ReturnedAtOnce == last.ret = last.call /\ last.to = last.by

\* C2: a coroutine whose body yields n times and then returns, resumed from
\* the root: while a resume of it is under way its status is Running; after
\* each of the first n resume calls it is Suspended; after the (n+1)-th it is
\* Dead; every later resume call answers NotSuspended and leaves it Dead.
C2_YieldsThenReturns ==
    \A c \in alive :
        ~body[c].any =>
            LET n == body[c].n
                k == body[c].resumes IN
            /\ k <= n + 1
            /\ pc[c] = "run" => status(c) = "Running"
            /\ (pc[c] # "run" /\ k <= n) => status(c) = "Suspended"
            /\ (pc[c] # "run" /\ k = n + 1) => status(c) = "Dead"
            /\ (last.ret = "resume" /\ last.co = c /\ ~ReturnedAtOnce) =>
                   /\ last.res = "Ok" /\ last.to \in Roots /\ k >= 1
                   /\ status(c) = (IF k <= n THEN "Suspended" ELSE "Dead")
            /\ (last.call = "resume" /\ last.co = c /\ ReturnedAtOnce) =>
                   k = n + 1 /\ last.res = "NotSuspended" /\ status(c) = "Dead"

\* The example's coroutine (two yields) after its third resume, answering a
\* fourth resume with NotSuspended.
C2_Witness ==
    \E c \in alive :
        /\ ~body[c].any /\ body[c].n = 2 /\ body[c].resumes = 3
        /\ last.call = "resume" /\ last.co = c /\ ReturnedAtOnce
        /\ last.res = "NotSuspended" /\ status(c) = "Dead"

\* C3: resume called on a coroutine whose status is Running, Normal or Dead
\* answers NotSuspended (or InvalidOperation), switches nowhere, and leaves the
\* status of every coroutine, the registry and every storage channel unchanged.
C3_FailedResume ==
    [][\A co \in handle :
           (last'.call = "resume" /\ last'.co = co
            /\ status(co) \in {"Running", "Normal", "Dead"})
               => /\ last'.res \in {"NotSuspended", "InvalidOperation"}
                  /\ last'.ret = "resume" /\ last'.to = last'.by
                  /\ pc' = pc /\ co_back' = co_back
                  /\ \A c \in Coros : status(c)' = status(c)
                  /\ \A t \in Threads : running(t)' = running(t)
                  /\ co_bytes' = co_bytes /\ co_cap' = co_cap
                  /\ co_prev' = co_prev /\ alive' = alive]_vars

\* A coroutine has just tried to resume its own Normal resumer.
C3_Witness ==
    /\ last.call = "resume" /\ ReturnedAtOnce /\ last.res = "NotSuspended"
    /\ last.co \in handle /\ last.by \in Coros
    /\ status(last.co) = "Normal" /\ status(last.by) = "Running"

\* C4, while the resumed coroutine executes: the coroutine that resumed it is
\* Normal and it is Running.
C4_WhileNested ==
    \A b \in alive :
        (pc[b] = "run" /\ co_back[b] \in Coros)
            => status(co_back[b]) = "Normal" /\ status(b) = "Running"

\* C4, the steps: a resume by coroutine A of B leaves A Normal and B Running
\* with control in B; a yield or return of B, resumed by coroutine A, gives
\* control to A and to no other context, with A Running and B Suspended (Dead
\* if it returned).
C4_Steps ==
    /\ (last'.call = "resume" /\ Switched /\ last'.by \in Coros) =>
           \E a, b \in Coros :
               /\ a = last'.by /\ b = last'.co /\ a # b
               /\ co_back'[b] = a /\ pc'[b] = "run" /\ pc'[a] = "resume"
               /\ status(a)' = "Normal" /\ status(b)' = "Running"
    /\ (last'.call \in YieldCalls \cup {"return"} /\ Switched) =>
           \E b \in Coros, a \in Ctx :
               /\ b = last'.co /\ a = co_back[b]
               /\ last'.to = a
               /\ \A y \in Ctx : OnThread(y, last'.t) => (pc'[y] = "run" <=> y = a)
               /\ status(b)' = (IF last'.call = "return" THEN "Dead" ELSE "Suspended")
               /\ a \in Coros => status(a)' = "Running"

\* C4: nested resumes are strictly nested, at every depth.
C4_StrictNesting == [](C4_WhileNested) /\ [][C4_Steps]_vars

\* At depth three the innermost coroutine has yielded: control is in the
\* coroutine that resumed it, which still waits under its own Normal resumer.
C4_Witness ==
    /\ last.call \in YieldCalls /\ last.ret = "resume"
    /\ last.to \in Coros /\ last.by \in Coros
    /\ pc[last.to] = "run" /\ status(last.to) = "Running"
    /\ status(last.by) = "Suspended"
    /\ co_back[last.to] \in Coros /\ status(co_back[last.to]) = "Normal"
    /\ co_back[co_back[last.to]] \in Roots

\* C5 as stated: yield_current and yield_current_unsafe called while
\* running() is None answer NotRunning.
C5_NotRunning ==
    (last.call \in {"yield_current", "yield_current_unsafe"} /\ ReturnedAtOnce
     /\ running(last.t) = NULL)
        => last.res = "NotRunning"

\* C5 as the code has it: yield_current and yield_current_unsafe called while
\* running() is None return the error InvalidCoroutine to their caller.
C5_InvalidCoroutine ==
    [][\A t \in Threads :
           (last'.call \in {"yield_current", "yield_current_unsafe"} /\ last'.t = t
            /\ running(t) = NULL)
               => /\ last'.res = "InvalidCoroutine"
                  /\ last'.ret = last'.call /\ last'.to = last'.by]_vars

\* The root has called yield_current_unsafe while a coroutine is Suspended.
C5_Witness ==
    /\ last.call = "yield_current_unsafe" /\ ReturnedAtOnce
    /\ last.by \in Roots /\ running(last.t) = NULL
    /\ last.res = "InvalidCoroutine"
    /\ \E c \in alive : status(c) = "Suspended" /\ pc[c] = "yield"

\* C6, the steps: every call is made by the context that has control, and a
\* context blocked in resume gets control back only in the step in which the
\* coroutine it resumed yields or returns.
C6_Blocked ==
    /\ last'.call # last.call \/ last'.by # last.by => pc[last'.by] = "run"
    /\ \A x \in Ctx :
           pc[x] = "resume" =>
               \/ pc'[x] = "resume"
               \/ /\ pc'[x] = "run"
                  /\ last'.call \in YieldCalls \cup {"return"}
                  /\ last'.ret = "resume" /\ last'.to = x
                  /\ \E b \in Coros :
                         /\ b = last'.co /\ co_back[b] = x /\ pc[b] = "run"
                         /\ status(b)' \in {"Suspended", "Dead"}

\* C6, the return: a resume call has answered Ok only where its target is
\* Suspended or Dead and its caller is the executing context again.
C6_OkReturn ==
    (last.ret = "resume" /\ last.res = "Ok") =>
        /\ status(last.co) \in {"Suspended", "Dead"}
        /\ pc[last.to] = "run"
        /\ running(last.t) = (IF last.to \in Coros THEN last.to ELSE NULL)
        /\ last.to \in Coros => status(last.to) = "Running"

\* C6: resume is synchronous.
C6_Synchronous == [](C6_OkReturn) /\ [][C6_Blocked]_vars

\* A coroutine's resume call has answered Ok after its target returned.
C6_Witness ==
    /\ last.ret = "resume" /\ last.res = "Ok" /\ last.call = "return"
    /\ last.to \in Coros /\ pc[last.to] = "run"
    /\ status(last.co) = "Dead"

\* C8: bytes_stored() never exceeds storage_size(), and storage_size() of a
\* coroutine never changes after its creation.
C8_Bounded ==
    /\ [](\A c \in alive : bytes_stored(c) <= storage_size(c))
    /\ [][\A c \in alive : c \in alive' => storage_size(c)' = storage_size(c)]_vars

\* A push has just been refused on a channel that is full.
C8_Witness ==
    /\ last.call = "push" /\ last.res = "NotEnoughSpace"
    /\ last.co \in alive /\ bytes_stored(last.co) = storage_size(last.co)
    /\ storage_size(last.co) = StorageSize

\* C9: a push of a value larger than the remaining capacity answers
\* NotEnoughSpace and leaves bytes_stored() and the content unchanged; a push
\* of a value that fits succeeds and adds exactly its size to bytes_stored().
C9_Push ==
    [][\A co \in handle :
           (last'.call = "push" /\ last'.co = co) =>
               IF last'.len > storage_size(co) - bytes_stored(co)
               THEN /\ last'.res = "NotEnoughSpace"
                    /\ bytes_stored(co)' = bytes_stored(co)
                    /\ co_bytes' = co_bytes
               ELSE /\ last'.res = "Ok"
                    /\ bytes_stored(co)' = bytes_stored(co) + last'.len]_vars

\* A two-byte push has been refused on a channel holding one byte.
C9_Witness ==
    /\ last.call = "push" /\ last.res = "NotEnoughSpace" /\ last.len = 2
    /\ last.co \in alive /\ bytes_stored(last.co) = StorageSize - 1
    /\ co_bytes[last.co] = last.before

\* C10: a push that succeeds, followed at once by a pop of the same size on
\* the same coroutine, gives back the pushed value byte for byte and restores
\* bytes_stored() and the content to what they were before the push.
C10_RoundTrip ==
    [][\A co \in handle :
           (last.call = "push" /\ last.res = "Ok" /\ last.co = co
            /\ last'.call = "pop" /\ last'.co = co /\ last'.len = last.len)
               => /\ last'.res = "Ok"
                  /\ last'.val = last.val
                  /\ co_bytes'[co] = last.before
                  /\ bytes_stored(co)' = Len(last.before)]_vars

\* A pop has given back the byte 1 from on top of a stored byte 0.
C10_Witness ==
    /\ last.call = "pop" /\ last.res = "Ok" /\ last.len = 1
    /\ last.val = <<1>> /\ last.before = <<0, 1>>
    /\ co_bytes[last.co] = <<0>>

\* C11: last in, first out across the switch boundary.  The content of a
\* channel is at every moment the values pushed and not yet popped, in the
\* order of the pushes, whoever pushed them and whatever resumes, yields and
\* returns lie between; a pop returns the bytes pushed last, and a pop of the
\* size of the value pushed last returns exactly that value: the coroutine's
\* pop what the resumer pushed last, the resumer's pop what the coroutine
\* pushed last.
C11_LastInFirstOut ==
    /\ [](\A c \in alive : Values(pushed[c].held) = co_bytes[c])
    /\ [][\A co \in handle :
             (last'.call = "pop" /\ last'.co = co /\ last'.res = "Ok" /\ last'.len > 0)
                 => LET entries == pushed[co].held
                        bytes == Values(entries) IN
                    /\ entries # <<>>
                    /\ last'.len <= Len(bytes)
                    /\ last'.val = SubSeq(bytes, Len(bytes) - last'.len + 1, Len(bytes))
                    /\ last'.val = Values(Taken(entries, last'.len))
                    /\ Len(entries[Len(entries)].val) = last'.len
                           => last'.val = entries[Len(entries)].val]_vars

\* The resumer has popped, after the yield, the value the coroutine pushed
\* while it ran; the coroutine had popped before what the resumer pushed.
C11_Witness ==
    \E c \in alive :
        /\ last.call = "pop" /\ last.co = c /\ last.by \in Roots /\ last.res = "Ok"
        /\ pc[c] = "yield" /\ status(c) = "Suspended"
        /\ pushed[c].taken = <<[by |-> c, val |-> last.val, at |-> "run"]>>
        /\ last.val = <<1, 0>> /\ last.before = <<1, 0>>
        /\ pushed[c].held = <<>>

\* C12: the drop of the handle of a coroutine whose status is Running or
\* Normal is rejected: its stack and storage channel are not released, no
\* status and no registry changes, and the contexts of the running chain stay
\* as they were; a control block is released only by the drop of a coroutine
\* whose status is Suspended or Dead.
C12_DropRejected ==
    [][/\ \A co \in handle :
             (last'.call = "drop" /\ last'.co = co
              /\ status(co) \in {"Running", "Normal"})
                 => /\ alive' = alive
                    /\ co_bytes' = co_bytes /\ co_cap' = co_cap
                    /\ \A c \in Coros : status(c)' = status(c)
                    /\ \A t \in Threads : running(t)' = running(t)
                    /\ pc' = pc /\ co_back' = co_back /\ co_prev' = co_prev
       /\ \A c \in alive :
             c \notin alive'
                 => /\ last'.call = "drop" /\ last'.co = c
                    /\ status(c) \in {"Suspended", "Dead"}]_vars

\* A running coroutine has dropped the handle of its Normal resumer, which is
\* still there and still Normal.
C12_Witness ==
    /\ last.call = "drop" /\ last.by \in Coros /\ last.co # last.by
    /\ last.co \in alive /\ last.co \notin handle
    /\ status(last.co) = "Normal" /\ co_back[last.by] = last.co
    /\ pc[last.by] = "run" /\ status(last.by) = "Running"

\* C13 as stated: a control block is released only when its coroutine is
\* Dead, or Suspended and never yet resumed; the drop of a coroutine that is
\* Suspended at a yield in the middle of its body releases nothing.
C13_NeverAfterResume ==
    [][\A co \in handle :
           (last'.call = "drop" /\ last'.co = co)
               => /\ co \notin alive'
                         => \/ status(co) = "Dead"
                            \/ status(co) = "Suspended" /\ pc[co] = "start"
                  /\ (status(co) = "Suspended" /\ pc[co] = "yield")
                         => alive' = alive /\ co_bytes' = co_bytes]_vars

\* C13 as the code has it: a control block is released only when its
\* coroutine is Dead or Suspended, resumed before or not; the drop of a
\* coroutine that is Suspended at a yield in the middle of its body destroys
\* it, releasing its stack and its storage.
C13_SuspendedDestroyed ==
    [][\A co \in handle :
           (last'.call = "drop" /\ last'.co = co)
               => /\ co \notin alive' => status(co) \in {"Dead", "Suspended"}
                  /\ (status(co) = "Suspended" /\ pc[co] = "yield")
                         => /\ co \notin alive' /\ co \notin handle'
                            /\ bytes_stored(co)' = 0 /\ storage_size(co)' = 0]_vars

\* The root has dropped a coroutine that stood at a yield, with a value still
\* in its channel, and the control block is gone.
C13_Witness ==
    /\ last.call = "drop" /\ last.by \in Roots
    /\ last.co \notin alive /\ last.co \notin handle
    /\ pushed[last.co].dropped = "yield"
    /\ pushed[last.co].held # <<>>
    /\ bytes_stored(last.co) = 0

\* No handle, registry or back-reference names a released control block.
C14_NoDangling ==
    /\ handle \subseteq alive
    /\ \A t \in Threads : running(t) # NULL => running(t) \in alive
    /\ \A c \in alive :
          /\ co_prev[c] # NULL => co_prev[c] \in alive
          /\ co_back[c] \in Coros => co_back[c] \in alive

\* The steps that acquire and release: Coroutine::new answering Ok acquires
\* one control block that was not held and hands out its handle; every other
\* call addresses a control block that has not been released; the drop of a
\* coroutine that is Dead, or Suspended and never started, releases exactly
\* its control block, with its storage, and consumes the handle.
C14_Steps ==
    \A co \in Coros :
        /\ (last'.call = "new" /\ last'.co = co /\ last'.res = "Ok")
               => co \notin alive /\ alive' = alive \cup {co} /\ co \in handle'
        /\ (last'.call # "new" /\ last'.co = co) => co \in alive
        /\ (last'.call = "drop" /\ last'.co = co
            /\ (status(co) = "Dead" \/ (status(co) = "Suspended" /\ pc[co] = "start")))
               => /\ co \in alive /\ alive' = alive \ {co}
                  /\ co \notin handle'
                  /\ bytes_stored(co)' = 0 /\ storage_size(co)' = 0
        /\ (co \in alive /\ co \notin alive') => last'.call = "drop" /\ last'.co = co

\* C14: a coroutine dropped while Dead or never started is released, and
\* exactly once: the drop releases it, and once released nothing addresses
\* the control block again.
C14_ReleasedOnce == [](C14_NoDangling) /\ [][C14_Steps]_vars

\* The root has dropped a coroutine that had run to its end: its control
\* block is released and no handle is left.
C14_Witness ==
    \E c \in Coros :
        /\ last.call = "drop" /\ last.co = c /\ last.by \in Roots
        /\ pushed[c].dropped = "done"
        /\ c \notin alive /\ c \notin handle /\ alive = {}

\* C15, the state: on each thread at most one coroutine is Running, and
\* running() on a thread names a coroutine of that thread which is Running,
\* never the one the other thread's running() names.
C15_PerThread ==
    \A t \in Threads :
        /\ Cardinality(RunningOn(t)) <= 1
        /\ running(t) # NULL =>
               /\ owner[running(t)] = t /\ status(running(t)) = "Running"
               /\ \A u \in Threads \ {t} : running(u) # running(t)

\* C15, the steps: a resume, a yield or a return on one thread leaves the
\* other thread's running(), the status of every coroutine of the other
\* thread and the position of every context of the other thread unchanged.
C15_OtherThread ==
    \A t \in Threads : \A u \in Threads \ {t} :
        (last'.t = t /\ last'.call \in YieldCalls \cup {"resume", "return"})
            => /\ running(u)' = running(u)
               /\ \A c \in OnThreadCoros(u) : status(c)' = status(c) /\ pc'[c] = pc[c]
               /\ pc'[Root(u)] = pc[Root(u)]
               /\ OnThreadCoros(u)' = OnThreadCoros(u)

\* C15: the running coroutine is per-thread state.
C15_ThreadLocal == [](C15_PerThread) /\ [][C15_OtherThread]_vars

\* A coroutine has yielded on one thread while the other thread's coroutine
\* is Running and stays so.
C15_Witness ==
    \E t \in Threads : \E u \in Threads \ {t} :
        /\ last.t = t /\ last.call = "yield_current" /\ last.ret = "resume"
        /\ last.res = "Ok" /\ running(t) = NULL /\ status(last.co) = "Suspended"
        /\ running(u) # NULL /\ status(running(u)) = "Running"
        /\ pc[running(u)] = "run"

\* C16, the steps.  A coroutine becomes Dead exactly in the step in which its
\* entry routine returns, and control then is with the context that resumed
\* it, whose resume call returns Ok; a Dead coroutine stays Dead through every
\* step that leaves it its control block; resume on it answers NotSuspended
\* and switches nowhere; its drop releases it.
C16_Steps ==
    \A c \in alive :
        /\ (last'.call = "return" /\ last'.co = c)
               => /\ status(c) = "Running" /\ status(c)' = "Dead"
                  /\ last'.by = c /\ last'.ret = "resume" /\ last'.res = "Ok"
                  /\ last'.to = co_back[c] /\ pc'[co_back[c]] = "run"
        /\ (status(c) # "Dead" /\ c \in alive' /\ status(c)' = "Dead")
               => last'.call = "return" /\ last'.co = c
        /\ (status(c) = "Dead" /\ c \in alive') => status(c)' = "Dead"
        /\ (status(c) = "Dead" /\ last'.call = "resume" /\ last'.co = c)
               => /\ last'.res = "NotSuspended"
                  /\ last'.ret = "resume" /\ last'.to = last'.by /\ pc' = pc
        /\ (status(c) = "Dead" /\ last'.call \in {"push", "pop"} /\ last'.co = c)
               => status(c)' = "Dead" /\ pc' = pc
        /\ (status(c) = "Dead" /\ last'.call = "drop" /\ last'.co = c)
               => c \notin alive' /\ c \notin handle'

\* C16: Dead is absorbing.
C16_DeadAbsorbing == [][C16_Steps]_vars

\* A coroutine that returned has been pushed to since and has just refused a
\* resume: it is still Dead.
C16_Witness ==
    \E c \in handle :
        /\ last.call = "resume" /\ last.co = c /\ ReturnedAtOnce
        /\ last.res = "NotSuspended"
        /\ status(c) = "Dead" /\ pc[c] = "done"
        /\ pushed[c].held # <<>>
        /\ pushed[c].held[Len(pushed[c].held)].at = "done"

\* C17, the steps.  Resume, yield and return leave the stored bytes, their
\* count and the capacity of every channel as they were; push and pop leave
\* every status, the registry and the position of every context as they
\* were; whether a push or pop succeeds depends on the sizes alone, never on
\* the status of the addressed coroutine; and a pop on a Dead coroutine of a
\* value pushed before its first resume returns that value.
C17_Steps ==
    /\ last'.call \in YieldCalls \cup {"resume", "return"}
           => \A c \in alive :
                  /\ co_bytes'[c] = co_bytes[c]
                  /\ bytes_stored(c)' = bytes_stored(c)
                  /\ storage_size(c)' = storage_size(c)
    /\ last'.call \in {"push", "pop"}
           => /\ \A c \in alive : status(c)' = status(c)
              /\ \A t \in Threads : running(t)' = running(t)
              /\ pc' = pc /\ alive' = alive
    /\ \A co \in handle :
           /\ (last'.call = "push" /\ last'.co = co)
                  => (last'.res = "Ok"
                          <=> last'.len <= storage_size(co) - bytes_stored(co))
           /\ (last'.call = "pop" /\ last'.co = co)
                  => (last'.res = "Ok" <=> last'.len <= bytes_stored(co))
           /\ (last'.call = "pop" /\ last'.co = co /\ last'.res = "Ok"
               /\ status(co) = "Dead" /\ pushed[co].held # <<>>)
                  => LET top == pushed[co].held[Len(pushed[co].held)] IN
                     (top.at = "start" /\ Len(top.val) = last'.len)
                         => last'.val = top.val

\* C17: the storage channel is independent of switching.
C17_Independent == [][C17_Steps]_vars

\* The value 0, 1 that the root pushed before the first resume has been
\* popped, unchanged, from the Dead coroutine.
C17_Witness ==
    \E c \in handle :
        /\ last.call = "pop" /\ last.co = c /\ last.res = "Ok" /\ last.by \in Roots
        /\ status(c) = "Dead"
        /\ last.val = <<0, 1>>
        /\ pushed[c].taken = <<[by |-> last.by, val |-> <<0, 1>>, at |-> "start"]>>

Errors ==
    {"GenericError", "InvalidPointer", "InvalidCoroutine", "NotSuspended", "NotRunning",
     "MakeContextError", "SwitchContextError", "NotEnoughSpace", "OutOfMemory",
     "InvalidArguments", "InvalidOperation", "StackOverflow", "Unknown"}

\* C19, the count: bytes_stored() is the total size of the values whose push
\* answered Ok less the total size of those whose pop answered Ok.
C19_Count ==
    \A c \in alive : bytes_stored(c) = Len(Values(pushed[c].held))

\* C19, the steps: a pop of more bytes than are stored answers an error and
\* no value, and leaves the content and its count as they were; a pop that
\* answers Ok returns as many bytes as asked, all of them pushed before, and
\* takes exactly that many off bytes_stored().
C19_Steps ==
    \A co \in handle :
        (last'.call = "pop" /\ last'.co = co) =>
            IF last'.len > bytes_stored(co)
            THEN /\ last'.res \in Errors /\ last'.val = <<>>
                 /\ co_bytes' = co_bytes
                 /\ bytes_stored(co)' = bytes_stored(co)
            ELSE /\ last'.res = "Ok"
                 /\ Len(last'.val) = last'.len
                 /\ last'.val = Values(Taken(pushed[co].held, last'.len))
                 /\ bytes_stored(co)' = bytes_stored(co) - last'.len
                 /\ \A c \in alive \ {co} : co_bytes'[c] = co_bytes[c]

\* C19: pop never returns what was not pushed, and bytes_stored() follows
\* the pushes and pops.
C19_PopChecked == [](C19_Count) /\ [][C19_Steps]_vars

\* A pop of two bytes has been refused on a channel that holds one byte,
\* which is still there.
C19_Witness ==
    \E c \in handle :
        /\ last.call = "pop" /\ last.co = c /\ last.len = 2
        /\ last.res = "NotEnoughSpace" /\ last.val = <<>>
        /\ bytes_stored(c) = 1 /\ co_bytes[c] = last.before
        /\ Len(pushed[c].held) = 1

\* The resume chain from c towards the root, c first, followed for at most k
\* back-references.
RECURSIVE ChainFrom(_, _)
ChainFrom(c, k) ==
    IF c = NULL \/ k = 0 THEN <<>> ELSE <<c>> \o ChainFrom(co_prev[c], k - 1)

\* The saved contexts from c towards the root, followed for at most k switches.
RECURSIVE SavedFrom(_, _)
SavedFrom(c, k) ==
    IF c \notin Coros \/ k = 0 THEN <<>> ELSE <<c>> \o SavedFrom(co_back[c], k - 1)

\* C20, the state: from the Running coroutine of a thread the back-references
\* reach the root without meeting any coroutine twice, through Normal
\* coroutines only, and they are the contexts that the switches saved.
C20_Chain ==
    \A t \in Threads :
        LET chain == ChainFrom(running(t), MaxCoros + 1)
            members == {chain[i] : i \in 1..Len(chain)} IN
        /\ Len(chain) <= MaxCoros
        /\ Cardinality(members) = Len(chain)
        /\ members \subseteq alive
        /\ \A i \in 2..Len(chain) : status(chain[i]) = "Normal"
        /\ chain = SavedFrom(running(t), MaxCoros + 1)
        /\ Len(chain) > 0 => co_back[chain[Len(chain)]] = Root(t)

\* C20, the steps: a resume by a coroutine of itself or of one of its
\* ancestors answers NotSuspended and leaves the chain as it was; every
\* resume that switches enters a coroutine that was Suspended and outside
\* the chain.
C20_Steps ==
    \A co \in handle : \A t \in Threads :
        (last'.call = "resume" /\ last'.co = co /\ last'.t = t) =>
            IF co \in ResumeChain(running(t), MaxCoros + 1)
            THEN /\ last'.res = "NotSuspended" /\ last'.to = last'.by
                 /\ co_prev' = co_prev /\ co_back' = co_back
                 /\ running(t)' = running(t)
            ELSE Switched => status(co) = "Suspended" /\ running(t)' = co

\* C20: the active resume chain is acyclic.
C20_Acyclic == [](C20_Chain) /\ [][C20_Steps]_vars

\* The coroutine at the end of a chain of three has tried to resume itself.
C20_Witness ==
    /\ last.call = "resume" /\ last.co = last.by /\ last.by \in Coros
    /\ ReturnedAtOnce /\ last.res = "NotSuspended"
    /\ running(last.t) = last.by
    /\ Len(ChainFrom(last.by, MaxCoros + 1)) = 3

====
